---- MODULE Spec2Model ----
(***************************************************************************)
(* Model of the exports generator (localtoast3000/scripts-lib).            *)
(*                                                                         *)
(* The repository holds three near-identical ExportsGenerator classes:     *)
(*   "class" : src/exports-generator/class.js, writes <root>/index.<ext>   *)
(*   "part"  : src/unnamed/part_000, writes <root>/exports/index.<ext>     *)
(*             with the specifier prefix '../'                             *)
(*   "index" : src/exports-generator/index.js, lines 58-267, writes        *)
(*             <root>/exports/module.exports.<ext> and <root>/package.json *)
(* and the CLI loop of src/exports-generator/index.js, lines 1-20.         *)
(*                                                                         *)
(* A file name is the sequence of its '.'-separated segments               *)
(* ("index.d.ts" is <<"index","d","ts">>), a file's text is a sequence of  *)
(* tokens, a directory listing is a sequence of entries in readdir order.  *)
(***************************************************************************)
EXTENDS Integers, Sequences, FiniteSets, TLC

VARIABLES variant, paths, fs, idx, pc, gen, walk, runs

vars == <<variant, paths, fs, idx, pc, gen, walk, runs>>

\* ------------------------------------------------------------------ bounds
MaxRootEntries == 2
MaxSubEntries == 2
MaxPaths == 2

\* --------------------------------------------------------------- constants
Variants == {"class", "part", "index"}
Roots == {1, 2}
JsExts == {"js", "jsx"}
TsExts == {"ts", "tsx"}
ModuleExts == JsExts \cup TsExts
Null == <<>>
NoMatch == ""
NoFile == [dir |-> "", name |-> <<>>, data |-> <<>>]

\* constructor defaults of the three variants
outputFileName(v) == IF v = "index" THEN <<"module", "exports">> ELSE <<"index">>
outputDirName(v) == IF v = "class" THEN "" ELSE "exports"
specifierPrefix(v) == IF v = "part" THEN "../" ELSE "./"

\* ---------------------------------------------------------- sequence tools
Last(s) == s[Len(s)]

RECURSIVE Flatten(_)
Flatten(ss) == IF ss = <<>> THEN <<>> ELSE Head(ss) \o Flatten(Tail(ss))

RECURSIVE SortedSeq(_)
SortedSeq(S) ==
  IF S = {} THEN <<>>
  ELSE LET m == CHOOSE x \in S : \A y \in S : x <= y
       IN <<m>> \o SortedSeq(S \ {m})

Names(listing) == [i \in DOMAIN listing |-> listing[i].name]
InSeq(x, s) == \E i \in DOMAIN s : s[i] = x
Find(listing, name) ==
  IF \E i \in DOMAIN listing : listing[i].name = name
  THEN CHOOSE i \in DOMAIN listing : listing[i].name = name
  ELSE 0

\* ------------------------------------------------------ file-name patterns
\* segments whose text ends in "index"
EndsWithIndex == {"index", "myindex"}

\* /\.(js|jsx)$/ and /\.(ts|tsx)$/
TestExt(name, exts) == Len(name) >= 2 /\ Last(name) \in exts

\* /index\.(js|jsx)$/ and /index\.(ts|tsx)$/ : unanchored on the left
TestIndexExt(name, exts) ==
  /\ Len(name) >= 2
  /\ Last(name) \in exts
  /\ name[Len(name) - 1] \in EndsWithIndex

\* new RegExp(`^${outputFileName}\\.(js|jsx)$`), /^index\.(js|jsx)$/ ; the '.' of
\* 'module.exports' is a pattern wildcard, no name of the input space differs
\* from the output name only there
TestOutput(v, name, exts) == \E e \in exts : name = outputFileName(v) \o <<e>>

\* the extension set of the pattern that excludes typed files at the root
tsExclusionExts(v) == IF v = "class" THEN TsExts ELSE JsExts

\* ---------------------------------------------------------- export detector
Keywords == {"function", "class", "const", "let", "var"}
Punct == {"{", "}", "(", ")", "=>", ";", "\n", "./", "../", ":", ","}
IsWord(t) == t \notin Punct

\* the default-export pattern tried at token i; the captured name or NoMatch
MatchAt(data, i) ==
  IF ~(i + 2 <= Len(data) /\ data[i] = "export" /\ data[i + 1] = "default")
  THEN NoMatch
  ELSE IF IsWord(data[i + 2])
       THEN IF data[i + 2] \in Keywords /\ i + 3 <= Len(data) /\ IsWord(data[i + 3])
            THEN data[i + 3]
            ELSE data[i + 2]
       ELSE IF /\ i + 6 <= Len(data)
               /\ data[i + 2] = "("
               /\ data[i + 3] # ")"
               /\ data[i + 4] = ")"
               /\ data[i + 5] = "=>"
               /\ data[i + 6] = "{"
            THEN "undefined"
            ELSE NoMatch

\* String.prototype.match: the leftmost match
Match(data) ==
  LET hits == {i \in DOMAIN data : MatchAt(data, i) # NoMatch}
  IN IF hits = {} THEN NoMatch
     ELSE MatchAt(data, CHOOSE i \in hits : \A j \in hits : i <= j)

\* `export { default as ${name} } from '${prefix}${basename}';`
Statement(name, prefix, basename) ==
  <<"export", "{", "default", "as", name, "}", "from", prefix, basename, ";">>

\* the specifier base: split('.')[0], or the containing directory's name
Basename(dirName, fname) ==
  IF \E k \in DOMAIN fname : fname[k] = "index" THEN dirName ELSE fname[1]

\* generateExportStatement with a fault: a file that cannot be read is taken
\* to hold a default export named after its first segment
generateExportStatementNoCatch(v, dirName, listing, fname) ==
  LET i == Find(listing, fname) IN
  IF i = 0 THEN Null
  ELSE IF listing[i].kind # "file" THEN Null
  ELSE IF ~listing[i].readable
       THEN Statement(fname[1], specifierPrefix(v), Basename(dirName, fname))
  ELSE LET name == Match(listing[i].data) IN
       IF name = NoMatch THEN Null
       ELSE Statement(name, specifierPrefix(v), Basename(dirName, fname))

\* generateExportStatement(path.join(<dir>, fname)); listing is <dir>'s content
generateExportStatement(v, dirName, listing, fname) ==
  LET i == Find(listing, fname) IN
  IF i = 0 THEN Null
  ELSE IF listing[i].kind # "file" \/ ~listing[i].readable THEN Null
  ELSE LET name == Match(listing[i].data) IN
       IF name = NoMatch THEN Null
       ELSE Statement(name, specifierPrefix(v), Basename(dirName, fname))

\* ---------------------------------------------------------- directory walk
NonNull(ss) == SelectSeq(ss, LAMBDA s : s # Null)

\* the index-file count of one subdirectory listing
indexFileCount(files) == Cardinality({i \in DOMAIN files : files[i].name[1] = "index"})

\* the extension left in indexFileExt after the map over the listing
indexFileExt(files) ==
  LET hits == {i \in DOMAIN files : files[i].name[1] = "index" /\ Len(files[i].name) >= 2}
  IN IF hits = {} THEN ""
     ELSE files[CHOOSE i \in hits : \A j \in hits : j <= i].name[2]

\* the path handed to the detector for a subdirectory, <<>> when none is
subdirCall(sub) ==
  IF sub.readable /\ indexFileCount(sub.files) > 0 /\ indexFileCount(sub.files) < 2
  THEN <<[dir |-> sub.name[1], name |-> <<"index", indexFileExt(sub.files)>>]>>
  ELSE <<>>

subdirStatement(v, sub) ==
  IF subdirCall(sub) = <<>> THEN Null
  ELSE generateExportStatement(v, sub.name[1], sub.files, subdirCall(sub)[1].name)

\* subdirTally with a fault: the index files of subdirectories are not tallied
subdirTallyNone(sub, exts) == <<>>

subdirTally(sub, exts) ==
  IF sub.readable
  THEN SelectSeq(Names(sub.files), LAMBDA n : TestIndexExt(n, exts))
  ELSE <<>>

directJs(v, files) ==
  SelectSeq(Names(files), LAMBDA n : TestExt(n, JsExts) /\ ~TestOutput(v, n, JsExts))

directTs(v, files) ==
  SelectSeq(Names(files), LAMBDA n : TestExt(n, TsExts) /\ ~TestOutput(v, n, tsExclusionExts(v)))

\* the statSync filter; every entry of the input space can be stat'ed
subdirectories(files) == SelectSeq(files, LAMBDA f : f.kind = "dir")

\* the statements in the order processDirectory pushes them
walkStatements(v, d) ==
  LET files == d.entries
      direct == directJs(v, files) \o directTs(v, files)
      subs == subdirectories(files)
  IN NonNull([i \in DOMAIN direct |-> generateExportStatement(v, d.name, files, direct[i])])
     \o NonNull([i \in DOMAIN subs |-> subdirStatement(v, subs[i])])

\* every path handed to generateExportStatement, in call order
walkCalls(v, d) ==
  LET files == d.entries
      direct == directJs(v, files) \o directTs(v, files)
      subs == subdirectories(files)
  IN [i \in DOMAIN direct |-> [dir |-> d.name, name |-> direct[i]]]
     \o Flatten([i \in DOMAIN subs |-> subdirCall(subs[i])])

processDirectory(v, d) ==
  IF ~d.readable
  THEN [exportStatements |-> <<>>, jsFiles |-> <<>>, tsFiles |-> <<>>, calls |-> <<>>]
  ELSE LET subs == subdirectories(d.entries) IN
       [exportStatements |-> walkStatements(v, d),
        jsFiles |-> directJs(v, d.entries)
                    \o Flatten([i \in DOMAIN subs |-> subdirTally(subs[i], JsExts)]),
        tsFiles |-> directTs(v, d.entries)
                    \o Flatten([i \in DOMAIN subs |-> subdirTally(subs[i], TsExts)]),
        calls |-> walkCalls(v, d)]

\* ------------------------------------------------------------ barrel writer
\* indexFileExtension with a fault: no conflict branch, the script extension
\* is the default
indexFileExtensionNoConflict(jsFiles, tsFiles) ==
  IF Len(tsFiles) > 0 /\ Len(jsFiles) = 0 THEN "ts" ELSE "js"

\* the extension of the output file, "" on a conflict
indexFileExtension(jsFiles, tsFiles) ==
  IF Len(tsFiles) > 0 /\ Len(jsFiles) = 0 THEN "ts"
  ELSE IF Len(jsFiles) > 0 /\ Len(tsFiles) = 0 THEN "js"
  ELSE ""

\* Join with a fault: every statement is followed by a newline, the last too
RECURSIVE JoinTrailing(_)
JoinTrailing(ss) ==
  IF ss = <<>> THEN <<>> ELSE ss[1] \o <<"\n">> \o JoinTrailing(Tail(ss))

\* exportStatements.join('\n')
RECURSIVE Join(_)
Join(ss) ==
  IF ss = <<>> THEN <<>>
  ELSE IF Len(ss) = 1 THEN ss[1]
  ELSE ss[1] \o <<"\n">> \o Join(Tail(ss))

File(name, data) ==
  [name |-> name, kind |-> "file", data |-> data, files |-> <<>>, readable |-> TRUE]
Dir(name, files) ==
  [name |-> name, kind |-> "dir", data |-> <<>>, files |-> files, readable |-> TRUE]

\* fs.writeFileSync(path.join(<dir>, name), data) on <dir>'s listing; a new
\* file is listed last
writeFileSync(listing, name, data) ==
  LET i == Find(listing, name) IN
  IF i = 0 THEN Append(listing, File(name, data))
  ELSE [listing EXCEPT ![i].data = data]

\* if (!fs.existsSync(exportsDir)) fs.mkdirSync(exportsDir)
mkdirSync(listing, dirName) ==
  IF Find(listing, <<dirName>>) = 0 THEN Append(listing, Dir(<<dirName>>, <<>>)) ELSE listing

packageJson(v, indexFileName) ==
  <<"{", "main", ":", outputDirName(v)>> \o indexFileName \o <<"}">>

\* the root listing after the writes of generate()
writeArtifact(v, entries, indexFileName, data) ==
  IF v = "class" THEN writeFileSync(entries, indexFileName, data)
  ELSE LET made == mkdirSync(entries, outputDirName(v))
           k == Find(made, <<outputDirName(v)>>)
           put == [made EXCEPT ![k].files = writeFileSync(@, indexFileName, data)]
       IN IF v = "index"
          THEN writeFileSync(put, <<"package", "json">>, packageJson(v, indexFileName))
          ELSE put

\* a write throws when the root is read-only or the output directory's name
\* is taken by a file
writeThrows(v, d) ==
  \/ ~d.writable
  \/ /\ v # "class"
     /\ Find(d.entries, <<outputDirName(v)>>) # 0
     /\ d.entries[Find(d.entries, <<outputDirName(v)>>)].kind # "dir"

\* what generate() does with the statements: "nothing", "conflict", "error"
\* (a write that throws) or "written"
outcomeOf(v, d, exportStatements, jsFiles, tsFiles) ==
  IF Len(exportStatements) > 0
  THEN IF indexFileExtension(jsFiles, tsFiles) = "" THEN "conflict"
       ELSE IF writeThrows(v, d) THEN "error"
       ELSE "written"
  ELSE "nothing"

\* the file generate() writes
indexFile(v, exportStatements, jsFiles, tsFiles) ==
  [dir |-> outputDirName(v),
   name |-> outputFileName(v) \o <<indexFileExtension(jsFiles, tsFiles)>>,
   data |-> Join(exportStatements)]

\* generate() of a generator g on the root directory d, in one piece
generate(v, g, d) ==
  LET res == processDirectory(v, d)
      jsFiles == g.jsFiles \o res.jsFiles
      tsFiles == g.tsFiles \o res.tsFiles
      outcome == outcomeOf(v, d, res.exportStatements, jsFiles, tsFiles)
      written == IF outcome = "written"
                 THEN indexFile(v, res.exportStatements, jsFiles, tsFiles)
                 ELSE NoFile
  IN [outcome |-> outcome,
      exportStatements |-> res.exportStatements,
      jsFiles |-> jsFiles,
      tsFiles |-> tsFiles,
      calls |-> res.calls,
      written |-> written,
      entries |-> IF outcome = "written"
                  THEN writeArtifact(v, d.entries, written.name, written.data)
                  ELSE d.entries]

\* ExportsGenerator with a fault: one generator is reused, its tallies are
\* carried to the next path
ExportsGeneratorShared(dirPath) ==
  [PATH |-> dirPath, jsFiles |-> gen.jsFiles, tsFiles |-> gen.tsFiles]

\* new ExportsGenerator(dirPath)
ExportsGenerator(dirPath) == [PATH |-> dirPath, jsFiles |-> <<>>, tsFiles |-> <<>>]

\* ------------------------------------------------------------ input space
DefaultExport(n) == <<"export", "default", "function", n>>
Plain == <<"const", "x">>
Unreadable(e) == [e EXCEPT !.readable = FALSE]

SubFileChoices ==
  << File(<<"index", "d", "ts">>, Plain),
     File(<<"index", "jsx">>, DefaultExport("M")),
     File(<<"index", "mjs">>, DefaultExport("N")),
     File(<<"index", "ts">>, DefaultExport("T")),
     File(<<"myindex", "js">>, Plain) >>

SubListings ==
  { [i \in DOMAIN SortedSeq(S) |-> SubFileChoices[SortedSeq(S)[i]]] :
      S \in {T \in SUBSET DOMAIN SubFileChoices : Cardinality(T) <= MaxSubEntries} }

RootFileChoices(v) ==
  { File(<<"a", "js">>, DefaultExport("A")),
    File(<<"a", "js">>, Plain),
    Unreadable(File(<<"a", "js">>, DefaultExport("A"))),
    File(<<"b", "ts">>, DefaultExport("B")),
    File(outputFileName(v) \o <<"ts">>, DefaultExport("Old")),
    File(<<"foo", "index", "js">>, DefaultExport("Foo")),
    File(<<"notes", "md">>, DefaultExport("Notes")) }

RootEntryChoices(v) ==
  RootFileChoices(v)
  \cup { Dir(<<n>>, l) : n \in {"m", "exports"}, l \in SubListings }
  \cup { Unreadable(Dir(<<"m">>, <<SubFileChoices[4]>>)) }

DistinctNames(listing) ==
  \A i, j \in DOMAIN listing : listing[i].name = listing[j].name => i = j

RootListings(v) ==
  { l \in UNION { [1..n -> RootEntryChoices(v)] : n \in 0..MaxRootEntries } :
      DistinctNames(l) }

RootName(r) == IF r = 1 THEN "src" ELSE "lib"

RootDir(r, entries, readable, writable) ==
  [name |-> RootName(r), entries |-> entries, readable |-> readable, writable |-> writable]

EmptyRoot(r) == RootDir(r, <<>>, TRUE, TRUE)

\* the few directories of the multi-path runs
CliListings ==
  { <<>>,
    <<File(<<"a", "js">>, DefaultExport("A"))>>,
    <<File(<<"a", "js">>, DefaultExport("A")), File(<<"b", "ts">>, DefaultExport("B"))>>,
    <<Dir(<<"m">>, <<SubFileChoices[4]>>)>> }

CliDirs(r) ==
  { RootDir(r, l, TRUE, w) : l \in CliListings, w \in BOOLEAN }
  \cup { RootDir(r, <<>>, FALSE, TRUE) }

PathLists == UNION { [1..n -> Roots] : n \in 1..MaxPaths }

\* --------------------------------------------------------------- behaviour
\* the locals of processDirectory before its first statement
NoWalk ==
  [before |-> EmptyRoot(1), startJs |-> <<>>, startTs |-> <<>>,
   currentJsFiles |-> <<>>, currentTsFiles |-> <<>>,
   todo |-> <<>>, subdirs |-> <<>>, exportStatements |-> <<>>, calls |-> <<>>]

InitControl ==
  /\ idx = 1
  /\ pc = "new"
  /\ gen = [PATH |-> 0, jsFiles |-> <<>>, tsFiles |-> <<>>]
  /\ walk = NoWalk
  /\ runs = <<>>

\* the directories of the single-root runs: every bounded listing, and an
\* unreadable root
RootDirs(v) ==
  { RootDir(1, l, TRUE, TRUE) : l \in RootListings(v) } \cup { RootDir(1, <<>>, FALSE, TRUE) }

\* one root, scanned once: `exports-generator src`
Init ==
  /\ variant \in Variants
  /\ paths = <<1>>
  /\ \E d \in RootDirs(variant) : fs = [r \in Roots |-> IF r = 1 THEN d ELSE EmptyRoot(r)]
  /\ InitControl

\* one root, scanned twice in succession: `exports-generator src src`
InitTwice ==
  /\ variant \in Variants
  /\ paths = <<1, 1>>
  /\ \E d \in RootDirs(variant) : fs = [r \in Roots |-> IF r = 1 THEN d ELSE EmptyRoot(r)]
  /\ InitControl

\* several roots, each a small directory
InitCli ==
  /\ variant \in Variants
  /\ paths \in PathLists
  /\ fs \in [Roots -> UNION {CliDirs(r) : r \in Roots}]
  /\ \A r \in Roots : fs[r] \in CliDirs(r)
  /\ InitControl

\* generateExportsForPath: the constructor call for the next argument
NewGenerator ==
  /\ pc = "new"
  /\ idx <= Len(paths)
  /\ gen' = ExportsGenerator(paths[idx])
  /\ pc' = "generate"
  /\ UNCHANGED <<variant, paths, fs, idx, walk, runs>>

\* generate() enters processDirectory: readdirSync of the root, the two
\* filters and the statSync filter; an unreadable root lands in the catch
ReadRoot ==
  /\ pc = "generate"
  /\ walk' = [NoWalk EXCEPT
                !.before = fs[gen.PATH],
                !.startJs = gen.jsFiles,
                !.startTs = gen.tsFiles,
                !.currentJsFiles = IF fs[gen.PATH].readable
                                   THEN directJs(variant, fs[gen.PATH].entries) ELSE <<>>,
                !.currentTsFiles = IF fs[gen.PATH].readable
                                   THEN directTs(variant, fs[gen.PATH].entries) ELSE <<>>,
                !.todo = IF fs[gen.PATH].readable
                         THEN directJs(variant, fs[gen.PATH].entries)
                              \o directTs(variant, fs[gen.PATH].entries)
                         ELSE <<>>,
                !.subdirs = IF fs[gen.PATH].readable
                            THEN Names(subdirectories(fs[gen.PATH].entries)) ELSE <<>>]
  /\ pc' = IF fs[gen.PATH].readable THEN "walk" ELSE "write"
  /\ UNCHANGED <<variant, paths, fs, idx, gen, runs>>

\* one turn of the loops over currentJsFiles and currentTsFiles
DetectDirect ==
  /\ pc = "walk"
  /\ walk.todo # <<>>
  /\ walk' = [walk EXCEPT
                !.todo = Tail(@),
                !.calls = Append(@, [dir |-> fs[gen.PATH].name, name |-> Head(walk.todo)]),
                !.exportStatements =
                   @ \o NonNull(<<generateExportStatement(variant, fs[gen.PATH].name,
                                                          fs[gen.PATH].entries, Head(walk.todo))>>)]
  /\ UNCHANGED <<variant, paths, fs, idx, pc, gen, runs>>

\* one turn of the loop over subdirectories; an unreadable one lands in the
\* inner catch before anything is added
VisitSubdir ==
  /\ pc = "walk"
  /\ walk.todo = <<>>
  /\ walk.subdirs # <<>>
  /\ \E k \in {Find(fs[gen.PATH].entries, Head(walk.subdirs))} :
       walk' = [walk EXCEPT
                  !.subdirs = Tail(@),
                  !.currentJsFiles = @ \o subdirTally(fs[gen.PATH].entries[k], JsExts),
                  !.currentTsFiles = @ \o subdirTally(fs[gen.PATH].entries[k], TsExts),
                  !.calls = @ \o subdirCall(fs[gen.PATH].entries[k]),
                  !.exportStatements =
                     @ \o NonNull(<<subdirStatement(variant, fs[gen.PATH].entries[k])>>)]
  /\ UNCHANGED <<variant, paths, fs, idx, pc, gen, runs>>

\* addJsFiles, addTsFiles and the return of processDirectory
AddFiles ==
  /\ pc = "walk"
  /\ walk.todo = <<>>
  /\ walk.subdirs = <<>>
  /\ gen' = [gen EXCEPT !.jsFiles = @ \o walk.currentJsFiles,
                        !.tsFiles = @ \o walk.currentTsFiles]
  /\ pc' = "write"
  /\ UNCHANGED <<variant, paths, fs, idx, walk, runs>>

\* the rest of generate() after processDirectory, and the return to forEach
WriteIndex ==
  /\ pc = "write"
  /\ \E o \in {outcomeOf(variant, fs[gen.PATH], walk.exportStatements, gen.jsFiles, gen.tsFiles)} :
     \E f \in {IF o = "written"
               THEN indexFile(variant, walk.exportStatements, gen.jsFiles, gen.tsFiles)
               ELSE NoFile} :
     \E after \in {IF o = "written"
                   THEN writeArtifact(variant, fs[gen.PATH].entries, f.name, f.data)
                   ELSE fs[gen.PATH].entries} :
       /\ fs' = [fs EXCEPT ![gen.PATH].entries = after]
       /\ runs' = Append(runs, [path |-> gen.PATH,
                                before |-> walk.before,
                                startJs |-> walk.startJs,
                                startTs |-> walk.startTs,
                                outcome |-> o,
                                exportStatements |-> walk.exportStatements,
                                jsFiles |-> gen.jsFiles,
                                tsFiles |-> gen.tsFiles,
                                calls |-> walk.calls,
                                written |-> f,
                                after |-> [fs[gen.PATH] EXCEPT !.entries = after]])
  /\ idx' = idx + 1
  /\ pc' = "new"
  /\ UNCHANGED <<variant, paths, gen, walk>>

Next == NewGenerator \/ ReadRoot \/ DetectDirect \/ VisitSubdir \/ AddFiles \/ WriteIndex

Spec == Init /\ [][Next]_vars

SpecTwice == InitTwice /\ [][Next]_vars

\* the loop is synchronous: a step that can be taken is taken
FairSpecCli == InitCli /\ [][Next]_vars /\ WF_vars(Next)

TypeOK ==
  /\ variant \in Variants
  /\ idx \in 1..(Len(paths) + 1)
  /\ pc \in {"new", "generate", "walk", "write"}
  /\ Len(runs) <= Len(paths)

\* the steps of one run add up to generate() computed in one piece
RunsAgree ==
  \A i \in DOMAIN runs :
    LET r == runs[i]
        g == generate(variant, [PATH |-> r.path, jsFiles |-> r.startJs, tsFiles |-> r.startTs],
                      r.before)
    IN /\ r.outcome = g.outcome
       /\ r.exportStatements = g.exportStatements
       /\ r.jsFiles = g.jsFiles
       /\ r.tsFiles = g.tsFiles
       /\ r.calls = g.calls
       /\ r.written = g.written
       /\ r.after.entries = g.entries

\* ------------------------------------------------------------------ claims
OneFamily(r) == (Len(r.jsFiles) > 0) # (Len(r.tsFiles) > 0)

\* the file of listing l named n, NoFile when there is none
FileAt(dirName, l, n) ==
  IF Find(l, n) = 0 THEN NoFile
  ELSE [dir |-> dirName, name |-> n, data |-> l[Find(l, n)].data]

\* the listing of the directory the artifact goes to, in the root directory d
OutputListing(v, d) ==
  IF v = "class" THEN d.entries
  ELSE IF Find(d.entries, <<outputDirName(v)>>) = 0 THEN <<>>
  ELSE d.entries[Find(d.entries, <<outputDirName(v)>>)].files

\* the statement the detector returns for the call c of a walk of d
CallStatement(v, d, c) ==
  IF c.dir = d.name
  THEN generateExportStatement(v, d.name, d.entries, c.name)
  ELSE generateExportStatement(v, c.dir, d.entries[Find(d.entries, <<c.dir>>)].files, c.name)

\* discovery rank of a call: direct script files, direct typed files, subdirectories
CallRank(d, c) ==
  IF c.dir = d.name THEN (IF TestExt(c.name, JsExts) THEN 1 ELSE 2) ELSE 3

\* position in the root listing of the entry a call comes from
CallPos(d, c) ==
  IF c.dir = d.name THEN Find(d.entries, c.name) ELSE Find(d.entries, <<c.dir>>)

\* the direct candidates named n: root files of a recognized extension that
\* do not carry the output base name
DirectCandidates(v, d, n) ==
  {e \in DOMAIN d.entries :
     /\ d.entries[e].kind = "file"
     /\ d.entries[e].name = n
     /\ TestExt(n, ModuleExts)
     /\ ~TestOutput(v, n, ModuleExts)}

\* C1: generate() writes the output artifact only if processDirectory produced
\* at least one export statement and exactly one of the tallies jsFiles, tsFiles
\* has entries; with no statement, both families or neither family, nothing is
\* written and the directory is left as it was.
C1_WriteGate ==
  \A i \in DOMAIN runs :
    LET r == runs[i]
        gate == Len(r.exportStatements) > 0 /\ OneFamily(r)
    IN /\ (r.written # NoFile \/ r.after # r.before) => gate
       /\ ~gate => r.written = NoFile /\ r.after = r.before /\ r.outcome # "written"

\* C1 witness: a run with statements of one family wrote the artifact into a
\* directory that did not hold it.
C1_Witness ==
  \E i \in DOMAIN runs :
    /\ runs[i].outcome = "written"
    /\ runs[i].written # NoFile
    /\ runs[i].after # runs[i].before
    /\ Len(runs[i].exportStatements) > 0
    /\ OneFamily(runs[i])

\* C2: with at least one statement and one family in the tally, and the write
\* not failing, generate() writes <outputFileName>.ts when only typed files
\* were tallied and <outputFileName>.js when only script files were, and the
\* content is the statements joined by newlines in discovery order: direct
\* script files in listing order, direct typed files in listing order, then at
\* most one statement per subdirectory in listing order.
C2_ArtifactContent ==
  \A i \in DOMAIN runs :
    LET r == runs[i]
        d == r.before
        ext == IF Len(r.tsFiles) > 0 THEN "ts" ELSE "js"
        stmts == NonNull([k \in DOMAIN r.calls |-> CallStatement(variant, d, r.calls[k])])
        n == Len(stmts)
    IN (Len(r.exportStatements) > 0 /\ OneFamily(r) /\ ~writeThrows(variant, d)) =>
         /\ r.written.name = outputFileName(variant) \o <<ext>>
         /\ FileAt(outputDirName(variant), OutputListing(variant, r.after), r.written.name)
              = r.written
         /\ \A e \in DOMAIN d.entries :
              DirectCandidates(variant, d, d.entries[e].name) # {}
              => \E k \in DOMAIN r.calls :
                   r.calls[k] = [dir |-> d.name, name |-> d.entries[e].name]
         /\ \A j, k \in DOMAIN r.calls :
              j < k => \/ CallRank(d, r.calls[j]) < CallRank(d, r.calls[k])
                       \/ /\ CallRank(d, r.calls[j]) = CallRank(d, r.calls[k])
                          /\ CallPos(d, r.calls[j]) < CallPos(d, r.calls[k])
         /\ Len(r.written.data) = 11 * n - 1
         /\ \A k \in 1..n :
              /\ SubSeq(r.written.data, 11 * k - 10, 11 * k - 1) = stmts[k]
              /\ k < n => r.written.data[11 * k] = "\n"

\* C2 witness: an artifact of two statements, the second from a subdirectory
\* that the listing puts before the direct file of the first.
C2_Witness ==
  \E i \in DOMAIN runs :
    LET r == runs[i] IN
      /\ r.written # NoFile
      /\ Len(r.exportStatements) = 2
      /\ Len(r.calls) = 2
      /\ r.calls[1].dir = r.before.name
      /\ r.calls[2].dir # r.before.name
      /\ CallPos(r.before, r.calls[2]) < CallPos(r.before, r.calls[1])

\* the artifacts a root directory holds: the files at the output location
\* that carry the output base name and an extension generate() can choose
Artifacts(v, d) ==
  { FileAt(outputDirName(v), OutputListing(v, d), outputFileName(v) \o <<e>>) :
      e \in {"js", "ts"} } \ {NoFile}

\* C3: two runs of generate() in succession on one root, a fresh generator
\* each, leave after the second run the artifact the first run left, and the
\* second run has the statements and the family decision of the first.
C3_Idempotent ==
  (Len(runs) = 2 /\ runs[1].path = runs[2].path) =>
    /\ Artifacts(variant, runs[2].after) = Artifacts(variant, runs[1].after)
    /\ runs[2].exportStatements = runs[1].exportStatements
    /\ runs[2].outcome = runs[1].outcome
    /\ runs[2].written = runs[1].written

\* an entry named exactly "index" with one extension
NamedIndex(f) == Len(f.name) = 2 /\ f.name[1] = "index"

IndexFiles(sub) == {k \in DOMAIN sub.files : NamedIndex(sub.files[k])}

\* the calls of a run that went to subdirectory sub
SubCalls(r, sub) == {k \in DOMAIN r.calls : r.calls[k].dir = sub.name[1]}

\* C4: for every immediate subdirectory, with n the number of its entries
\* named index.<ext>: n = 0 gives no statement, n = 1 gives a call of the
\* detector on that one index file, n >= 2 gives no statement for the
\* subdirectory while the statements of the direct files are still produced.
C4_IndexCount ==
  \A i \in DOMAIN runs :
    LET r == runs[i]
        d == r.before
    IN d.readable =>
         \A e \in DOMAIN d.entries :
           LET sub == d.entries[e]
               n == Cardinality(IndexFiles(sub))
               produced == \E k \in SubCalls(r, sub) :
                             CallStatement(variant, d, r.calls[k]) # Null
           IN (sub.kind = "dir" /\ sub.readable) =>
                /\ n = 0 => ~produced
                /\ n = 1 => \E k \in SubCalls(r, sub) : \E f \in IndexFiles(sub) :
                              r.calls[k].name = sub.files[f].name
                /\ n >= 2 =>
                     /\ ~produced
                     /\ \A k \in DOMAIN r.calls :
                          (r.calls[k].dir = d.name
                           /\ CallStatement(variant, d, r.calls[k]) # Null)
                          => InSeq(CallStatement(variant, d, r.calls[k]), r.exportStatements)

\* C5: in every statement generateExportStatement returns, the specifier is
\* the configured prefix followed by the containing directory's name if and
\* only if the file's name up to its first '.' is "index", and the prefix
\* followed by the name up to the first '.' for every other file.
C5_Specifier ==
  \A i \in DOMAIN runs :
    \A k \in DOMAIN runs[i].calls :
      LET c == runs[i].calls[k]
          st == CallStatement(variant, runs[i].before, c)
      IN st # Null =>
           /\ st[8] = specifierPrefix(variant)
           /\ st[9] = (IF c.name[1] = "index" THEN c.dir ELSE c.name[1])

\* no file with a recognized module extension at the root or one level down
NoModuleFiles(d) ==
  \A e \in DOMAIN d.entries :
    /\ ~TestExt(d.entries[e].name, ModuleExts)
    /\ \A k \in DOMAIN d.entries[e].files :
         ~TestExt(d.entries[e].files[k].name, ModuleExts)

\* C6: on a directory with no .js, .jsx, .ts or .tsx file at the root or in
\* its immediate subdirectories, generate() ends in the nothing-found outcome
\* and writes nothing; it never ends in the conflict outcome.
C6_NothingFound ==
  \A i \in DOMAIN runs :
    NoModuleFiles(runs[i].before) =>
      /\ runs[i].outcome = "nothing"
      /\ runs[i].written = NoFile
      /\ runs[i].after = runs[i].before

\* C7: a direct file named <outputFileName>.<ext>, of the script family or of
\* the typed family, is not a candidate: it is not passed to the detector and,
\* where no subdirectory can supply the same name, it is not in the tally.
C7_OutputExcluded ==
  \A i \in DOMAIN runs :
    LET r == runs[i]
        d == r.before
    IN \A e \in DOMAIN d.entries :
         LET f == d.entries[e] IN
         (d.readable /\ f.kind = "file" /\ TestOutput(variant, f.name, ModuleExts)) =>
           /\ \A k \in DOMAIN r.calls :
                ~(r.calls[k].dir = d.name /\ r.calls[k].name = f.name)
           /\ subdirectories(d.entries) = <<>> =>
                ~InSeq(f.name, r.jsFiles) /\ ~InSeq(f.name, r.tsFiles)

Count(x, s) == Cardinality({k \in DOMAIN s : s[k] = x})

\* the subdirectories of d whose single index file is named n
QualifyingDirs(d, n) ==
  {e \in DOMAIN d.entries :
     /\ d.entries[e].kind = "dir"
     /\ d.entries[e].readable
     /\ Cardinality(IndexFiles(d.entries[e])) = 1
     /\ \E f \in IndexFiles(d.entries[e]) : d.entries[e].files[f].name = n}

FamilyNames(d, exts) ==
  {n \in {d.entries[e].name : e \in DOMAIN d.entries}
         \cup UNION {{d.entries[e].files[k].name : k \in DOMAIN d.entries[e].files} :
                       e \in DOMAIN d.entries} :
     TestExt(n, exts)}

\* C8: after processDirectory returns normally every direct candidate file
\* and every qualifying index file is in the tally of its family, jsFiles for
\* .js/.jsx and tsFiles for .ts/.tsx, once per file, whether or not the
\* detector produced a statement for it.
C8_TallyComplete ==
  \A i \in DOMAIN runs :
    LET r == runs[i]
        d == r.before
    IN d.readable =>
         /\ \A n \in FamilyNames(d, JsExts) :
              Count(n, r.jsFiles) >= Cardinality(DirectCandidates(variant, d, n))
                                     + Cardinality(QualifyingDirs(d, n))
         /\ \A n \in FamilyNames(d, TsExts) :
              Count(n, r.tsFiles) >= Cardinality(DirectCandidates(variant, d, n))
                                     + Cardinality(QualifyingDirs(d, n))

\* C8 witness: a walk with a direct candidate that gave no statement and a
\* qualifying index file in a subdirectory, both tallied.
C8_Witness ==
  \E i \in DOMAIN runs :
    LET r == runs[i]
        d == r.before
    IN /\ d.readable
       /\ \E n \in FamilyNames(d, JsExts) :
            /\ DirectCandidates(variant, d, n) # {}
            /\ generateExportStatement(variant, d.name, d.entries, n) = Null
            /\ InSeq(n, r.jsFiles)
       /\ \E n \in FamilyNames(d, ModuleExts) :
            /\ QualifyingDirs(d, n) # {}
            /\ InSeq(n, r.jsFiles \o r.tsFiles)

\* the listing l without its k-th entry
Without(l, k) == SubSeq(l, 1, k - 1) \o SubSeq(l, k + 1, Len(l))

\* the outcome of generate() of a fresh generator on d
OutcomeOf(v, d) == generate(v, ExportsGenerator(0), d).outcome

\* C9: a file whose extension is not .js, .jsx, .ts or .tsx is ignored: it is
\* never passed to the detector, and the outcome of generate() is the outcome
\* on the same directory without that file.
C9_OthersIgnored ==
  \A i \in DOMAIN runs :
    LET r == runs[i]
        d == r.before
    IN /\ \A k \in DOMAIN r.calls :
            LET c == r.calls[k]
                l == IF c.dir = d.name THEN d.entries
                     ELSE d.entries[Find(d.entries, <<c.dir>>)].files
            IN Find(l, c.name) # 0 => TestExt(c.name, ModuleExts)
       /\ \A e \in DOMAIN d.entries :
            /\ (d.entries[e].kind = "file" /\ ~TestExt(d.entries[e].name, ModuleExts))
               => OutcomeOf(variant, [d EXCEPT !.entries = Without(@, e)]) = r.outcome
            /\ \A k \in DOMAIN d.entries[e].files :
                 ~TestExt(d.entries[e].files[k].name, ModuleExts)
                 => OutcomeOf(variant, [d EXCEPT !.entries[e].files = Without(@, k)])
                      = r.outcome

\* the paths are taken in argument order, one at a time, each with a fresh tally
C10_InOrder ==
  /\ Len(runs) = idx - 1
  /\ idx <= Len(paths) + 1
  /\ \A i \in DOMAIN runs :
       /\ runs[i].path = paths[i]
       /\ runs[i].startJs = <<>>
       /\ runs[i].startTs = <<>>
  /\ pc # "new" => idx <= Len(paths) /\ gen.PATH = paths[idx]
  /\ pc = "generate" => gen.jsFiles = <<>> /\ gen.tsFiles = <<>>

\* C10: several root paths are processed strictly in argument order, each
\* generate() finishing before the next path starts; every path is eventually
\* processed whatever failed on an earlier path, and each path starts with an
\* empty tally.
C10_SequentialPaths == []C10_InOrder /\ <>[](Len(runs) = Len(paths))

\* C10 witness: two different roots, the write of the first failing, the
\* second still processed and its artifact written.
C10_Witness ==
  /\ Len(paths) = 2
  /\ Len(runs) = 2
  /\ paths[1] # paths[2]
  /\ runs[1].outcome = "error"
  /\ Len(runs[1].jsFiles) > 0
  /\ runs[2].outcome = "written"

\* what processDirectory returns and tallies on d for a fresh generator
WalkOf(v, d) ==
  [exportStatements |-> processDirectory(v, d).exportStatements,
   jsFiles |-> processDirectory(v, d).jsFiles,
   tsFiles |-> processDirectory(v, d).tsFiles]

\* what a run returned and tallied
WalkOfRun(r) ==
  [exportStatements |-> r.exportStatements, jsFiles |-> r.jsFiles, tsFiles |-> r.tsFiles]

Changed(l1, l2) == {k \in DOMAIN l2 : k > Len(l1) \/ l2[k] # l1[k]}

\* the files a run changed or created, as <<directory, name>>; a root entry
\* is under "", the entries of a subdirectory under the subdirectory's name
ChangedFiles(r) ==
  LET b == r.before.entries
      a == r.after.entries
  IN { <<"", a[k].name>> : k \in {x \in Changed(b, a) : a[x].kind = "file"} }
     \cup UNION { { <<a[k].name[1], a[k].files[j].name>> :
                      j \in Changed(IF k > Len(b) THEN <<>> ELSE b[k].files, a[k].files) } :
                  k \in {x \in Changed(b, a) : a[x].kind = "dir"} }

\* C12: one run of generate() removes nothing, changes or creates at most one
\* file, the output artifact at the scan root or in the output subdirectory,
\* creates no directory but the output subdirectory, and on the nothing-found
\* and conflict outcomes leaves the root as it was.
C12_Frame ==
  \A i \in DOMAIN runs :
    LET r == runs[i]
        b == r.before.entries
        a == r.after.entries
    IN /\ Len(a) >= Len(b)
       /\ \A k \in DOMAIN b : a[k].name = b[k].name /\ a[k].kind = b[k].kind
       /\ \A k \in DOMAIN b : a[k].kind = "dir" => Len(a[k].files) >= Len(b[k].files)
       /\ \A k \in Changed(b, a) :
            a[k].kind = "dir" => a[k].name = <<outputDirName(variant)>>
       /\ ChangedFiles(r) \subseteq {<<outputDirName(variant), r.written.name>>}
       /\ r.outcome \in {"nothing", "conflict"} => r.after = r.before

\* the root entries of d named n
DirectNamed(d, n) == {e \in DOMAIN d.entries : d.entries[e].name = n}

\* C13: a name is in jsFiles or tsFiles no more often than there are direct
\* entries of that name and subdirectories whose single index file has that
\* name; and a subdirectory that does not hold exactly one index file has no
\* part in the outcome: generate() ends as it does on the root without it.
C13_TallyOnlyCandidates ==
  \A i \in DOMAIN runs :
    LET r == runs[i]
        d == r.before
    IN (d.readable /\ r.startJs = <<>> /\ r.startTs = <<>>) =>
         /\ \A k \in DOMAIN (r.jsFiles \o r.tsFiles) :
              LET n == (r.jsFiles \o r.tsFiles)[k] IN
              Count(n, r.jsFiles \o r.tsFiles)
                <= Cardinality(DirectNamed(d, n)) + Cardinality(QualifyingDirs(d, n))
         /\ \A e \in DOMAIN d.entries :
              (d.entries[e].kind = "dir" /\ d.entries[e].readable
               /\ Cardinality(IndexFiles(d.entries[e])) # 1)
              => OutcomeOf(variant, [d EXCEPT !.entries = Without(@, e)]) = r.outcome

====
